---- MODULE Spec2Model ----
(***************************************************************************)
(* Model of the GitHub assistant (src/github.py, src/main.py).             *)
(*                                                                         *)
(* The operator is logged in as Username and drives the menu loop of       *)
(* main().  Spec: menu choice 3 runs transfer_repository.  SpecDup: menu   *)
(* choice 1 runs get_repositories and menu choice 4 runs                   *)
(* delete_duplicate_repos.  Every await and every prompt is one action;    *)
(* the synchronous code that follows an await is part of the same action.  *)
(* The hosting platform, the local filesystem and the working directory    *)
(* are state.                                                              *)
(***************************************************************************)
EXTENDS Integers, Sequences, FiniteSets, TLC

\* ---------------------------------------------------------------- bounds
NumRepos == 2
MaxJobs == 2

\* ------------------------------------------------------------- constants
Names == 1..NumRepos
Username == "alice"
Accounts == {"alice", "bob"}
\* A token is identified by the account it authenticates as.
Tokens == Accounts
BaseDir == 0
HTTP_CREATED == 201
HTTP_NO_CONTENT == 204
\* answers of POST /user/repos: created, unauthorized, name already taken
CreateStatuses == {HTTP_CREATED, 401, 422}
\* answers of DELETE /repos/{owner}/{name}: no content, forbidden
DeleteStatuses == {HTTP_NO_CONTENT, 403}
\* exit codes of the git subprocess: success, fatal error
ExitCodes == {0, 128}
Raised == -1

VARIABLES
    pc,          \* position of the single thread of control
    remote,      \* platform: <<account, name>> -> "none" | "empty" | "data"
    disk,        \* base directory: name -> [exists, origin] of <name>.git
    cwd,         \* process working directory: BaseDir or the name of a mirror
    repo_name, new_owner, new_token, delete_old,   \* arguments of the job
    old_cwd,     \* local variable of transfer_repository (line 201)
    result,      \* what transfer_repository gave back to its caller
    ret,         \* source line of the return statement taken (0: none)
    log,         \* <<step, outcome>> of the steps the current job took, in order
    console,     \* messages printed by the current job, in order
    cwd_at_call, \* working directory when the job was called
    remote_at_call, disk_at_call,  \* platform and disk when the job was called
    outcomes,    \* <<ret, result>> of every job that has ended so far
    jobs,        \* number of jobs started
    private,     \* platform: the repositories <<owner, name>> that are private
    collab,      \* platform: repositories the account that is not the owner
                 \* collaborates on
    filler,      \* platform: account -> number of further repositories of
                 \* third parties it collaborates on, listed before the others
    repo_filter, \* argument of get_repositories
    listing,     \* what get_repositories gave back last
    other_username, other_token, exclude,  \* arguments of the duplicates job
    duplicates,  \* what list_duplicate_repos gave back
    repos_to_delete,  \* local variable of delete_duplicate_repos (line 294)
    todo         \* names the loop at line 311 has still to visit

vars == <<pc, remote, disk, cwd, repo_name, new_owner, new_token, delete_old,
          old_cwd, result, ret, log, console, cwd_at_call, remote_at_call,
          disk_at_call, outcomes, jobs, private, collab, filler, repo_filter,
          listing, other_username, other_token, exclude, duplicates,
          repos_to_delete, todo>>

\* variables of the listing and duplicates jobs
lvars == <<repo_filter, listing, other_username, other_token, exclude,
           duplicates, repos_to_delete, todo>>
\* variables of the transfer job
tvars == <<disk, cwd, repo_name, new_owner, new_token, delete_old, old_cwd,
           cwd_at_call, disk_at_call, jobs>>

env == <<remote, disk, cwd>>
args == <<repo_name, new_owner, new_token, delete_old>>

\* ------------------------------------------------------------------ URLs
NoUrl == [token |-> "", owner |-> "", name |-> 0]
\* line 178: https://{self.token}@github.com/{self.username}/{repo_name}.git
clone_url(name) == [token |-> Username, owner |-> Username, name |-> name]
\* line 203: https://{new_token}@github.com/{new_owner}/{repo_name}.git
new_remote_url(tok, owner, name) == [token |-> tok, owner |-> owner, name |-> name]

NoDir == [exists |-> FALSE, origin |-> NoUrl]
Mirror(url) == [exists |-> TRUE, origin |-> url]

\* a directory check that always passes
path_exists_always(d, name) == TRUE

\* line 193: os.path.exists(f"{repo_name}.git"), relative to the base directory
path_exists(d, name) == d[name].exists

\* a cleanup that removes nothing
rmtree_keeps(d, name, ok) == d

\* line 234: shutil.rmtree(repo_dir, ignore_errors=True); ok = no error occurred
rmtree(d, name, ok) == IF ok THEN [d EXCEPT ![name] = NoDir] ELSE d

\* main.py lines 99-116: the repository is picked from get_repositories("owner")
OwnedNames(r, acct) == {n \in Names : r[<<acct, n>>] # "none"}

\* get_repositories result: the descriptors of the named repositories, in
\* order, and the number of descriptors of third-party repositories
NoListing == [named |-> <<>>, others |-> 0]

\* no listing or duplicates job is running
InitLocals ==
    /\ repo_filter = "" /\ listing = NoListing
    /\ other_username = "" /\ other_token = "" /\ exclude = {}
    /\ duplicates = <<>> /\ repos_to_delete = <<>> /\ todo = <<>>

Init ==
    /\ pc = "menu"
    /\ remote \in [Accounts \X Names -> {"none", "data"}]
    /\ disk = [n \in Names |-> NoDir]
    /\ cwd = BaseDir
    /\ repo_name = 0 /\ new_owner = "" /\ new_token = "" /\ delete_old = FALSE
    /\ old_cwd = BaseDir
    /\ result = "none" /\ ret = 0
    /\ log = <<>> /\ console = <<>>
    /\ cwd_at_call = BaseDir
    /\ remote_at_call = remote /\ disk_at_call = disk
    /\ outcomes = {}
    /\ jobs = 0
    /\ private = {} /\ collab = {}
    /\ filler = [a \in Accounts |-> 0]
    /\ InitLocals

\* Leaving transfer_repository by a return statement at source line `line`.
Return(line, value) ==
    /\ pc' = "t_end"
    /\ result' = value
    /\ ret' = line
    /\ outcomes' = outcomes \cup {<<line, value>>}

\* An exception leaves transfer_repository and main(): nothing catches it.
Raise ==
    /\ pc' = "crashed"
    /\ result' = "raised"
    /\ ret' = Raised
    /\ outcomes' = outcomes \cup {<<Raised, "raised">>}

\* main.py lines 97-130: menu choice 3
StartTransfer ==
    /\ pc = "menu"
    /\ jobs < MaxJobs
    /\ \E n \in OwnedNames(remote, Username), o \in Accounts, t \in Tokens,
          d \in BOOLEAN :
          /\ repo_name' = n /\ new_owner' = o /\ new_token' = t
          /\ delete_old' = d
    /\ pc' = "t_confirm"
    /\ result' = "none" /\ ret' = 0
    /\ log' = <<>> /\ console' = <<>>
    /\ cwd_at_call' = cwd /\ remote_at_call' = remote /\ disk_at_call' = disk
    /\ jobs' = jobs + 1
    /\ UNCHANGED <<env, old_cwd, outcomes, private, lvars, collab, filler>>

\* a confirmation whose answer is not looked at
confirmed_always(ans) == TRUE

\* line 151: if not Confirm.ask(...)
confirmed(ans) == ans

\* a declined transfer that returns nothing
cancelled_value_none == "None"

\* line 155: what a declined transfer returns
cancelled_value == "False"

\* lines 151-155
TConfirm ==
    /\ pc = "t_confirm"
    /\ \E ans \in BOOLEAN :
          IF confirmed(ans)
          THEN /\ pc' = "t_create"
               /\ log' = Append(log, <<"confirm", IF ans THEN 1 ELSE 0>>)
               /\ UNCHANGED <<result, ret, outcomes, console>>
          ELSE /\ log' = Append(log, <<"confirm", IF ans THEN 1 ELSE 0>>)
               /\ console' = Append(console, "Transfer cancelled.")
               /\ Return(155, cancelled_value)
    /\ UNCHANGED <<env, args, old_cwd, cwd_at_call, remote_at_call,
                   disk_at_call, jobs, private,
                   lvars, collab, filler>>

\* The account a token authenticates as.
token_account(tok) == tok

\* a creation check that only rejects an authorisation failure
create_succeeded_unless_unauthorized(status) == status # 401

\* line 166: create_response.status_code == 201
create_succeeded(status) == status = HTTP_CREATED

\* POST /user/repos under the token's account: the platform answers "created"
\* only when the name is free there, "unprocessable" only when it is taken.
create_possible(r, tok, name, status) ==
    CASE status = HTTP_CREATED -> r[<<token_account(tok), name>>] = "none"
      [] status = 422 -> r[<<token_account(tok), name>>] # "none"
      [] OTHER -> TRUE

platform_create(r, tok, name, status) ==
    IF status = HTTP_CREATED
    THEN [r EXCEPT ![<<token_account(tok), name>>] = "empty"]
    ELSE r

\* lines 157-174
TCreate ==
    /\ pc = "t_create"
    /\ \/ \E status \in CreateStatuses :
             /\ create_possible(remote, new_token, repo_name, status)
             /\ remote' = platform_create(remote, new_token, repo_name, status)
             /\ private' = IF status = HTTP_CREATED
                           THEN private \cup {<<token_account(new_token), repo_name>>}
                           ELSE private
             /\ IF create_succeeded(status)
                THEN /\ pc' = "t_clone"
                     /\ log' = Append(log, <<"create", status>>)
                     /\ console' = Append(console, "Repository created.")
                     /\ UNCHANGED <<result, ret, outcomes>>
                ELSE /\ log' = Append(log, <<"create", status>>)
                     /\ console' = Append(console, "Error creating repository.")
                     /\ Return(174, "False")
       \/ /\ log' = Append(log, <<"create", Raised>>)
          /\ Raise
          /\ UNCHANGED <<remote, private, console>>
    /\ UNCHANGED <<disk, cwd, args, old_cwd, cwd_at_call, remote_at_call,
                   disk_at_call, jobs, lvars, collab, filler>>

\* git clone --mirror <url> in the working directory: exit code 0 with the
\* directory made needs the source repository and a free directory name.
clone_possible(r, d, name, rc, made) ==
    IF rc = 0 /\ made
    THEN r[<<Username, name>>] # "none" /\ ~d[name].exists
    ELSE ~d[name].exists \/ rc # 0

git_clone(d, name, rc, made) ==
    IF rc = 0 /\ made THEN [d EXCEPT ![name] = Mirror(clone_url(name))] ELSE d

\* a clone whose exit code is not looked at
clone_failed_never(rc) == FALSE

\* line 186: clone_process.returncode != 0
clone_failed(rc) == rc # 0

\* lines 176-202
TClone ==
    /\ pc = "t_clone"
    /\ \/ \E rc \in ExitCodes, made \in BOOLEAN :
             /\ clone_possible(remote, disk, repo_name, rc, made)
             /\ disk' = git_clone(disk, repo_name, rc, made)
             /\ IF clone_failed(rc)
                THEN /\ log' = Append(log, <<"clone", rc>>)
                     /\ console' = Append(console, "Error cloning repository.")
                     /\ Return(190, "False")
                     /\ UNCHANGED <<cwd, old_cwd>>
                ELSE IF ~path_exists(disk', repo_name)
                THEN /\ log' = Append(Append(log, <<"clone", rc>>),
                                 <<"exists", IF disk'[repo_name].exists THEN 1 ELSE 0>>)
                     /\ console' = Append(console, "Local directory not found.")
                     /\ Return(195, "False")
                     /\ UNCHANGED <<cwd, old_cwd>>
                ELSE /\ log' = Append(Append(log, <<"clone", rc>>),
                                 <<"exists", IF disk'[repo_name].exists THEN 1 ELSE 0>>)
                     /\ console' = Append(console, "Pushing repository...")
                     /\ old_cwd' = cwd
                     /\ cwd' = repo_name
                     /\ pc' = "t_set_remote"
                     /\ UNCHANGED <<result, ret, outcomes>>
       \/ /\ log' = Append(log, <<"clone", Raised>>)
          /\ Raise
          /\ UNCHANGED <<disk, cwd, old_cwd, console>>
    /\ UNCHANGED <<remote, args, cwd_at_call, remote_at_call, disk_at_call,
                   jobs, private,
                   lvars, collab, filler>>

\* a repoint that leaves the remote configuration as the clone wrote it
git_set_url_skipped(d, dir, url, rc) == d

\* git remote set-url origin <url>, run in the working directory
git_set_url(d, dir, url, rc) ==
    IF rc = 0 /\ dir # BaseDir THEN [d EXCEPT ![dir].origin = url] ELSE d

\* a repoint whose exit code is not looked at
set_remote_failed_never(rc) == FALSE

\* line 211: set_remote_process.returncode != 0
set_remote_failed(rc) == rc # 0

\* lines 203-216
TSetRemote ==
    /\ pc = "t_set_remote"
    /\ \/ \E rc \in ExitCodes :
             /\ disk' = git_set_url(disk, cwd,
                           new_remote_url(new_token, new_owner, repo_name), rc)
             /\ IF set_remote_failed(rc)
                THEN /\ log' = Append(log, <<"set_url", rc>>)
                     /\ console' = Append(console, "Error setting new remote.")
                     /\ cwd' = old_cwd
                     /\ Return(216, "False")
                ELSE /\ log' = Append(log, <<"set_url", rc>>)
                     /\ pc' = "t_push"
                     /\ UNCHANGED <<cwd, console, result, ret, outcomes>>
       \/ /\ log' = Append(log, <<"set_url", Raised>>)
          /\ Raise
          /\ UNCHANGED <<disk, cwd, console>>
    /\ UNCHANGED <<remote, args, old_cwd, cwd_at_call, remote_at_call,
                   disk_at_call, jobs, private,
                   lvars, collab, filler>>

\* git push --mirror origin, run in the working directory: exit code 0 needs
\* the repository named by the mirror's origin to exist on the platform.
push_possible(r, d, dir, rc) ==
    rc = 0 => /\ dir # BaseDir
              /\ d[dir].exists
              /\ r[<<d[dir].origin.owner, d[dir].origin.name>>] # "none"

git_push(r, d, dir, rc) ==
    IF rc = 0
    THEN [r EXCEPT ![<<d[dir].origin.owner, d[dir].origin.name>>] = "data"]
    ELSE r

\* line 226: push_process.returncode != 0
push_failed(rc) == rc # 0

\* a source deletion offered whether requested or not
delete_requested_always(flag) == TRUE

\* line 237: if delete_old
delete_requested(flag) == flag

\* lines 244-247
TSuccess ==
    /\ console' = Append(console, "Repository transferred successfully.")
    /\ Return(247, "True")

\* lines 218-237
TPush ==
    /\ pc = "t_push"
    /\ \/ \E rc \in ExitCodes, rm_ok \in BOOLEAN :
             /\ push_possible(remote, disk, cwd, rc)
             /\ remote' = git_push(remote, disk, cwd, rc)
             /\ cwd' = old_cwd
             /\ IF push_failed(rc)
                THEN /\ log' = Append(log, <<"push", rc>>)
                     /\ console' = Append(console, "Error pushing repository.")
                     /\ Return(230, "False")
                     /\ UNCHANGED disk
                ELSE /\ disk' = rmtree(disk, repo_name, rm_ok)
                     /\ log' = Append(Append(log, <<"push", rc>>),
                                 <<"rmtree", IF rm_ok THEN 1 ELSE 0>>)
                     /\ IF delete_requested(delete_old)
                        THEN /\ pc' = "t_ask_delete"
                             /\ console' = Append(console, "Removing local directory...")
                             /\ UNCHANGED <<result, ret, outcomes>>
                        ELSE /\ console' = Append(Append(console,
                                    "Removing local directory..."),
                                    "Repository transferred successfully.")
                             /\ Return(247, "True")
       \/ /\ log' = Append(log, <<"push", Raised>>)
          /\ Raise
          /\ UNCHANGED <<remote, disk, cwd, console>>
    /\ UNCHANGED <<args, old_cwd, cwd_at_call, remote_at_call, disk_at_call,
                   jobs, private,
                   lvars, collab, filler>>

\* a re-confirmation whose answer is not looked at
reconfirmed_always(ans) == TRUE

\* line 238: if Confirm.ask(...)
reconfirmed(ans) == ans

\* line 238: Confirm.ask("Delete repository ... from the old account?")
TAskDelete ==
    /\ pc = "t_ask_delete"
    /\ \E ans \in BOOLEAN :
          IF reconfirmed(ans)
          THEN /\ pc' = "t_del_confirm"
               /\ log' = Append(log, <<"ask_delete", IF ans THEN 1 ELSE 0>>)
               /\ UNCHANGED <<result, ret, outcomes, console>>
          ELSE /\ log' = Append(log, <<"ask_delete", IF ans THEN 1 ELSE 0>>)
               /\ TSuccess
    /\ UNCHANGED <<env, args, old_cwd, cwd_at_call, remote_at_call,
                   disk_at_call, jobs, private,
                   lvars, collab, filler>>

\* lines 96-100 (delete_repository called from line 239), then lines 240-247
TDelConfirm ==
    /\ pc = "t_del_confirm"
    /\ \E ans \in BOOLEAN :
          IF ans
          THEN /\ pc' = "t_del_request"
               /\ log' = Append(log, <<"del_confirm", 1>>)
               /\ UNCHANGED <<result, ret, outcomes, console>>
          ELSE /\ log' = Append(log, <<"del_confirm", 0>>)
               /\ console' = Append(Append(Append(console,
                      "Deletion cancelled."),
                      "Failed to delete repository from the old account."),
                      "Repository transferred successfully.")
               /\ Return(247, "True")
    /\ UNCHANGED <<env, args, old_cwd, cwd_at_call, remote_at_call,
                   disk_at_call, jobs, private,
                   lvars, collab, filler>>

\* a delete request whose status is not looked at
delete_succeeded_always(status) == TRUE

\* line 103: response.status_code == 204
delete_succeeded(status) == status = HTTP_NO_CONTENT

\* DELETE /repos/{owner}/{name}: "no content" only when the repository exists
delete_possible(r, owner, name, status) ==
    status = HTTP_NO_CONTENT => r[<<owner, name>>] # "none"

platform_delete(r, owner, name, status) ==
    IF status = HTTP_NO_CONTENT THEN [r EXCEPT ![<<owner, name>>] = "none"]
    ELSE r

\* lines 101-112 (delete_repository called from line 239), then lines 240-247
TDelRequest ==
    /\ pc = "t_del_request"
    /\ \/ \E status \in DeleteStatuses :
             /\ delete_possible(remote, Username, repo_name, status)
             /\ remote' = platform_delete(remote, Username, repo_name, status)
             /\ IF delete_succeeded(status)
                THEN /\ log' = Append(log, <<"delete", status>>)
                     /\ console' = Append(Append(console,
                            "Repository successfully deleted."),
                            "Repository transferred successfully.")
                ELSE /\ log' = Append(log, <<"delete", status>>)
                     /\ console' = Append(Append(Append(console,
                            "Error deleting repository."),
                            "Failed to delete repository from the old account."),
                            "Repository transferred successfully.")
             /\ Return(247, "True")
       \/ /\ log' = Append(log, <<"delete", Raised>>)
          /\ Raise
          /\ UNCHANGED <<remote, console>>
    /\ UNCHANGED <<disk, cwd, args, old_cwd, cwd_at_call, remote_at_call,
                   disk_at_call, jobs, private,
                   lvars, collab, filler>>

\* main.py line 19: the menu loop takes the next choice
TEnd ==
    /\ pc = "t_end"
    /\ pc' = "menu"
    /\ UNCHANGED <<env, args, old_cwd, result, ret, log, console, cwd_at_call,
                   remote_at_call, disk_at_call, outcomes, jobs, private,
                   lvars, collab, filler>>

Next ==
    \/ StartTransfer
    \/ TConfirm
    \/ TCreate
    \/ TClone
    \/ TSetRemote
    \/ TPush
    \/ TAskDelete
    \/ TDelConfirm
    \/ TDelRequest
    \/ TEnd

Spec == Init /\ [][Next]_vars

\* ------------------------------------------- listing and duplicates jobs
PER_PAGE == 100
HTTP_OK == 200
\* answers of GET /user/repos: ok, unauthorized
ListStatuses == {HTTP_OK, 401}
Repos == Accounts \X Names
\* The operator compares with another account, not with the acting one.
OtherAccounts == Accounts \ {Username}
Filters == {"all", "owner", "collaborator"}

\* The spelling of an account's login in the platform's answers.
Login(acct) == CASE acct = "alice" -> "Alice" [] acct = "bob" -> "Bob"
\* The spellings the operator may type for an account.
Spellings(acct) == {acct, Login(acct)}

\* str.lower() on the logins of the model
lower(s) ==
    CASE s \in {"alice", "Alice"} -> "alice"
      [] s \in {"bob", "Bob"} -> "bob"
      [] OTHER -> s

Min(a, b) == IF a < b THEN a ELSE b

\* The named repositories an account sees: its own and those it collaborates on.
Visible(r, c, acct) ==
    {x \in Repos : r[x] # "none" /\ (x[1] = acct \/ x \in c)}

\* The platform lists by name, then by owner.
ListKey(x) == 2 * x[2] + (IF x[1] = Username THEN 0 ELSE 1)

RECURSIVE Listed(_)
Listed(S) ==
    IF S = {} THEN <<>>
    ELSE LET x == CHOOSE y \in S : \A z \in S : ListKey(y) <= ListKey(z)
         IN <<x>> \o Listed(S \ {x})

\* What the platform knows of one repository, as in the JSON answer.
RepoJson(x, priv) == [name |-> x[2], owner |-> Login(x[1]), private |-> x \in priv]

\* lines 56-57 and 259-263: the answer to GET /user/repos?per_page=100 for a
\* token is the first page only: the third-party repositories first, then
\* the named ones, PER_PAGE entries at most.
platform_list(r, priv, c, f, tok) ==
    LET acct == token_account(tok)
        all == Listed(Visible(r, c, acct))
        front == Min(f[acct], PER_PAGE)
        room == Min(Len(all), PER_PAGE - front)
    IN [named |-> [i \in 1..room |-> RepoJson(all[i], priv)],
        others |-> front]

\* an ownership test that compares the logins as spelled
repo_type_as_spelled(owner_login, username) ==
    IF owner_login = username THEN "owner" ELSE "collaborator"

\* lines 68-72
repo_type(owner_login, username) ==
    IF lower(owner_login) = lower(username) THEN "owner" ELSE "collaborator"

\* line 73
visibility(is_private) == IF is_private THEN "Private" ELSE "Public"

\* lines 74-82
repo_info(repo, username) ==
    [name |-> repo.name,
     visibility |-> visibility(repo.private),
     repo_type |-> repo_type(repo.owner, username),
     owner |-> repo.owner]

\* lines 84-87
kept(f, type) ==
    ~ \/ (f = "owner" /\ type # "owner")
      \/ (f = "collaborator" /\ type # "collaborator")

\* line 58: response.status_code != 200
list_failed(status) == status # HTTP_OK

\* lines 58-89: get_repositories on an answer with this status and body
get_repositories(status, body, username, f) ==
    IF list_failed(status) THEN NoListing
    ELSE LET infos == [i \in DOMAIN body.named |->
                          repo_info(body.named[i], username)]
             Keep(info) == kept(f, info.repo_type)
         IN [named |-> SelectSeq(infos, Keep),
             others |-> IF kept(f, "collaborator") THEN body.others ELSE 0]

\* The body the platform sends with a status.
list_body(status, r, priv, c, f, tok) ==
    IF status = HTTP_OK THEN platform_list(r, priv, c, f, tok) ELSE NoListing

NamesOf(seq) == {seq[i].name : i \in DOMAIN seq}
\* dict built by a comprehension over a list: the last entry of a name wins
LastOf(seq, n) ==
    seq[CHOOSE i \in DOMAIN seq :
            /\ seq[i].name = n
            /\ \A j \in DOMAIN seq : seq[j].name = n => j <= i]

\* line 273
owned_by(repo, username) == lower(repo.owner) = lower(username)

\* lines 270-274
other_repos(body, username) ==
    LET Mine(repo) == owned_by(repo, username)
        seq == SelectSeq(body.named, Mine)
    IN [n \in NamesOf(seq) |-> visibility(LastOf(seq, n).private)]

\* lines 264-280: list_duplicate_repos on my_repos and the other answer
list_duplicates(my_repos, status, body, username) ==
    IF list_failed(status) THEN <<>>
    ELSE LET others == other_repos(body, username)
         IN [n \in NamesOf(my_repos) \cap DOMAIN others |->
                LastOf(my_repos, n).visibility]

\* a duplicate set that is never taken for empty
none_found_never(dups) == FALSE

\* line 291: if not duplicates
none_found(dups) == DOMAIN dups = {}

\* an exclusion that keeps every duplicate
not_excluded_nothing(dups, excl) == dups

\* lines 294-296
not_excluded(dups, excl) ==
    [n \in {m \in DOMAIN dups : m \notin excl} |-> dups[n]]

\* line 311: a dict is visited in insertion order, that of my_repos
RECURSIVE InOrder(_, _)
InOrder(seq, keys) ==
    IF seq = <<>> THEN <<>>
    ELSE IF Head(seq).name \in keys
         THEN <<Head(seq).name>> \o InOrder(Tail(seq), keys \ {Head(seq).name})
         ELSE InOrder(Tail(seq), keys)

\* what the listing and duplicates actions never touch
frame == <<tvars, private, collab, filler>>
NoReturn == UNCHANGED <<result, ret, outcomes>>

ResetLocals ==
    /\ repo_filter' = "" /\ listing' = NoListing
    /\ other_username' = "" /\ other_token' = "" /\ exclude' = {}
    /\ duplicates' = <<>> /\ repos_to_delete' = <<>> /\ todo' = <<>>

\* main.py lines 29-42: menu choice 1
StartView ==
    /\ pc = "menu"
    /\ \E f \in Filters : repo_filter' = f
    /\ pc' = "g_request"
    /\ log' = <<>> /\ console' = <<>>
    /\ remote_at_call' = remote
    /\ NoReturn
    /\ UNCHANGED <<remote, listing, other_username, other_token, exclude,
                   duplicates, repos_to_delete, todo, frame>>

\* lines 56-89, called from main.py line 42
GetRepositories ==
    /\ pc = "g_request"
    /\ \/ \E status \in ListStatuses :
             /\ listing' = get_repositories(status,
                              list_body(status, remote, private, collab,
                                        filler, Username),
                              Username, repo_filter)
             /\ log' = Append(log, <<"list", status>>)
             /\ console' = IF list_failed(status)
                           THEN Append(console, "Error fetching repositories.")
                           ELSE console
             /\ pc' = "g_end"
             /\ NoReturn
       \/ /\ log' = Append(log, <<"list", Raised>>)
          /\ Raise
          /\ UNCHANGED <<listing, console>>
    /\ UNCHANGED <<remote, remote_at_call, repo_filter, other_username,
                   other_token, exclude, duplicates, repos_to_delete, todo,
                   frame>>

\* main.py lines 43-60 and 19: the table is shown, the menu loop goes on
GEnd ==
    /\ pc = "g_end"
    /\ pc' = "menu"
    /\ ResetLocals
    /\ log' = <<>> /\ console' = <<>>
    /\ NoReturn
    /\ UNCHANGED <<remote, remote_at_call, frame>>

\* main.py lines 132-142: menu choice 4
StartDuplicates ==
    /\ pc = "menu"
    /\ \E o \in OtherAccounts :
          /\ other_token' = o
          /\ \E u \in Spellings(o) : other_username' = u
    /\ \E e \in SUBSET Names : exclude' = e
    /\ pc' = "d_list_mine"
    /\ log' = <<>> /\ console' = <<>>
    /\ remote_at_call' = remote
    /\ NoReturn
    /\ UNCHANGED <<remote, repo_filter, listing, duplicates, repos_to_delete,
                   todo, frame>>

\* line 254: my_repos = await self.get_repositories("owner")
DListMine ==
    /\ pc = "d_list_mine"
    /\ \/ \E status \in ListStatuses :
             /\ listing' = get_repositories(status,
                              list_body(status, remote, private, collab,
                                        filler, Username),
                              Username, "owner")
             /\ log' = Append(log, <<"list_mine", status>>)
             /\ console' = IF list_failed(status)
                           THEN Append(console, "Error fetching repositories.")
                           ELSE console
             /\ pc' = "d_list_other"
             /\ NoReturn
       \/ /\ log' = Append(log, <<"list_mine", Raised>>)
          /\ Raise
          /\ UNCHANGED <<listing, console>>
    /\ UNCHANGED <<remote, remote_at_call, repo_filter, other_username,
                   other_token, exclude, duplicates, repos_to_delete, todo,
                   frame>>

\* lines 255-280, then lines 290-307 of delete_duplicate_repos
DListOther ==
    /\ pc = "d_list_other"
    /\ \/ \E status \in ListStatuses :
             LET dups == list_duplicates(listing.named, status,
                            list_body(status, remote, private, collab, filler,
                                      other_token),
                            other_username)
                 rest == not_excluded(dups, exclude)
                 said == IF list_failed(status)
                         THEN Append(console, "Error fetching repositories.")
                         ELSE console
             IN /\ duplicates' = dups
                /\ log' = Append(log, <<"list_other", status>>)
                /\ IF none_found(dups)
                   THEN /\ console' = Append(said,
                               "No duplicate repositories found.")
                        /\ pc' = "d_end"
                        /\ UNCHANGED repos_to_delete
                   ELSE /\ repos_to_delete' = rest
                        /\ IF DOMAIN rest = {}
                           THEN /\ console' = Append(said,
                                       "All duplicates were excluded from deletion.")
                                /\ pc' = "d_end"
                           ELSE /\ console' = Append(said,
                                       "The following duplicate repositories will be deleted:")
                                /\ pc' = "d_confirm"
                /\ NoReturn
       \/ /\ log' = Append(log, <<"list_other", Raised>>)
          /\ Raise
          /\ UNCHANGED <<duplicates, repos_to_delete, console>>
    /\ UNCHANGED <<remote, remote_at_call, repo_filter, listing,
                   other_username, other_token, exclude, todo, frame>>

\* lines 308-311
DConfirm ==
    /\ pc = "d_confirm"
    /\ \E ans \in BOOLEAN :
          /\ log' = Append(log, <<"batch_confirm", IF ans THEN 1 ELSE 0>>)
          /\ IF confirmed(ans)
             THEN /\ todo' = InOrder(listing.named, DOMAIN repos_to_delete)
                  /\ pc' = "d_del_confirm"
                  /\ UNCHANGED console
             ELSE /\ console' = Append(console, "Deletion cancelled.")
                  /\ pc' = "d_end"
                  /\ UNCHANGED todo
    /\ NoReturn
    /\ UNCHANGED <<remote, remote_at_call, repo_filter, listing,
                   other_username, other_token, exclude, duplicates,
                   repos_to_delete, frame>>

\* lines 311-313: after delete_repository has returned for Head(todo)
LoopOn(said) ==
    /\ todo' = Tail(todo)
    /\ IF Tail(todo) = <<>>
       THEN /\ console' = Append(said,
                   "Duplicate repositories deletion completed.")
            /\ pc' = "d_end"
       ELSE /\ console' = said
            /\ pc' = "d_del_confirm"

\* lines 96-100 (delete_repository called from line 312)
DDelConfirm ==
    /\ pc = "d_del_confirm"
    /\ \E ans \in BOOLEAN :
          IF confirmed(ans)
          THEN /\ log' = Append(log, <<"del_confirm", <<Head(todo), 1>>>>)
               /\ pc' = "d_del_request"
               /\ UNCHANGED <<console, todo>>
          ELSE /\ log' = Append(Append(log,
                             <<"del_confirm", <<Head(todo), 0>>>>),
                             <<"del_return", <<Head(todo), "False">>>>)
               /\ LoopOn(Append(console, "Deletion cancelled."))
    /\ NoReturn
    /\ UNCHANGED <<remote, remote_at_call, repo_filter, listing,
                   other_username, other_token, exclude, duplicates,
                   repos_to_delete, frame>>

\* lines 101-112 (delete_repository called from line 312)
DDelRequest ==
    /\ pc = "d_del_request"
    /\ \/ \E status \in DeleteStatuses :
             /\ delete_possible(remote, Username, Head(todo), status)
             /\ remote' = platform_delete(remote, Username, Head(todo), status)
             /\ log' = Append(Append(log, <<"delete", <<Head(todo), status>>>>),
                          <<"del_return", <<Head(todo),
                              IF delete_succeeded(status) THEN "True" ELSE "False">>>>)
             /\ LoopOn(Append(console,
                          IF delete_succeeded(status)
                          THEN "Repository successfully deleted."
                          ELSE "Error deleting repository."))
             /\ NoReturn
       \/ /\ log' = Append(log, <<"delete", <<Head(todo), Raised>>>>)
          /\ Raise
          /\ UNCHANGED <<remote, console, todo>>
    /\ UNCHANGED <<remote_at_call, repo_filter, listing, other_username,
                   other_token, exclude, duplicates, repos_to_delete, frame>>

\* main.py line 19: the menu loop takes the next choice
DEnd ==
    /\ pc = "d_end"
    /\ pc' = "menu"
    /\ ResetLocals
    /\ log' = <<>> /\ console' = <<>>
    /\ remote_at_call' = remote
    /\ NoReturn
    /\ UNCHANGED <<remote, frame>>

\* The platform as the listing and duplicates jobs may find it: at most one
\* private repository, at most one collaboration, and for each account either
\* no third-party repositories or a full page of them.
InitDup ==
    /\ pc = "menu"
    /\ remote \in [Repos -> {"none", "data"}]
    /\ private \in {{}} \cup {{x} : x \in {y \in Repos : remote[y] # "none"}}
    /\ collab \in {{}} \cup {{x} : x \in {y \in Repos : remote[y] # "none"}}
    /\ filler \in [Accounts -> {0, PER_PAGE}]
    /\ disk = [n \in Names |-> NoDir]
    /\ cwd = BaseDir
    /\ repo_name = 0 /\ new_owner = "" /\ new_token = "" /\ delete_old = FALSE
    /\ old_cwd = BaseDir
    /\ result = "none" /\ ret = 0
    /\ log = <<>> /\ console = <<>>
    /\ cwd_at_call = BaseDir
    /\ remote_at_call = remote /\ disk_at_call = disk
    /\ outcomes = {}
    /\ jobs = 0
    /\ InitLocals

NextDup ==
    \/ StartView
    \/ GetRepositories
    \/ GEnd
    \/ StartDuplicates
    \/ DListMine
    \/ DListOther
    \/ DConfirm
    \/ DDelConfirm
    \/ DDelRequest
    \/ DEnd

SpecDup == InitDup /\ [][NextDup]_vars

\* ------------------------------------------------------------ properties
\* The current (or last) job has left transfer_repository.
Over == pc \in {"t_end", "crashed"}
Has(step, out) == \E i \in DOMAIN log : log[i] = <<step, out>>
Took(step) == \E i \in DOMAIN log : log[i][1] = step
CloneSucceededAt(k) ==
    /\ k + 1 \in DOMAIN log
    /\ log[k] = <<"clone", 0>>
    /\ log[k + 1] = <<"exists", 1>>
\* The clone step was started and did not succeed.
CloneFailed ==
    \E k \in DOMAIN log : log[k][1] = "clone" /\ ~CloneSucceededAt(k)
\* The repository the creation request of this job addresses.
Destination == <<token_account(new_token), repo_name>>
Source == <<Username, repo_name>>

\* C1: the push step is never started unless destination creation succeeded
\* and, after it, the mirror clone succeeded; no clone is attempted before
\* destination creation has succeeded.
C1_PushOnlyAfterCreateThenClone ==
    /\ \A i \in DOMAIN log :
          (log[i][1] = "push" \/ (i = Len(log) /\ pc = "t_push")) =>
             \E j \in 1..i, k \in 1..i :
                /\ j < k
                /\ log[j] = <<"create", HTTP_CREATED>>
                /\ CloneSucceededAt(k)
                /\ k + 1 <= i
    /\ \A i \in DOMAIN log :
          log[i][1] = "clone" =>
             \E j \in 1..(i - 1) : log[j] = <<"create", HTTP_CREATED>>
    /\ pc = "t_clone" => log[Len(log)] = <<"create", HTTP_CREATED>>

C1_Witness == Over /\ Has("push", 0) /\ result = "True"

\* C2 (as claimed): for a job that reached the push step, a failed push
\* leaves <repoName>.git present at the end of the job and a successful push
\* leaves it absent.
C2_DirPresentIffPushFailed ==
    (Over /\ Took("push")) =>
        IF Has("push", 0)
        THEN ~path_exists(disk, repo_name)
        ELSE path_exists(disk, repo_name)

\* C2 (amended): a failed push leaves <repoName>.git present at the end of
\* the job and no removal is attempted; after a successful push one removal
\* with errors suppressed has run, and the directory is absent at the end of
\* the job whenever that removal met no error.
C2_DirPresentAfterFailedPushElseRemovalRan ==
    (Over /\ Took("push")) =>
        IF Has("push", 0)
        THEN /\ \E i \in DOMAIN log :
                   /\ log[i] = <<"push", 0>>
                   /\ i + 1 \in DOMAIN log
                   /\ log[i + 1][1] = "rmtree"
             /\ Has("rmtree", 1) => ~path_exists(disk, repo_name)
        ELSE /\ path_exists(disk, repo_name)
             /\ ~Took("rmtree")

C2_Witness == Over /\ Has("push", 0) /\ Has("rmtree", 1) /\ ~path_exists(disk, repo_name)

\* C3: when the creation request is answered with a status other than
\* "created", the job returns False at once: no clone, no local directory,
\* no repoint, push, cleanup or source deletion.
C3_CreateFailureStopsJob ==
    \A i \in DOMAIN log :
        (log[i][1] = "create" /\ log[i][2] \notin {HTTP_CREATED, Raised}) =>
           /\ i = Len(log)
           /\ result = "False" /\ ret = 174
           /\ disk = disk_at_call
           /\ remote = remote_at_call
           /\ cwd = cwd_at_call

C3_Witness == Over /\ Has("create", 422)

\* C4 (as claimed): when the mirror clone fails, no empty repository created
\* by this job remains on the destination account at the end of the job.
C4_NoOrphanAfterCloneFailure ==
    (Over /\ CloneFailed) =>
        ~(remote_at_call[Destination] = "none" /\ remote[Destination] = "empty")

\* C4 (amended): when the mirror clone fails, the job ends in failure and the
\* empty repository it created on the destination account is still there:
\* nothing rolls the creation back, and the local disk is untouched.
C4_OrphanRemainsAfterCloneFailure ==
    (Over /\ CloneFailed) =>
        /\ remote_at_call[Destination] = "none"
        /\ remote[Destination] = "empty"
        /\ \A a \in Accounts, n \in Names :
              <<a, n>> # Destination => remote[<<a, n>>] = remote_at_call[<<a, n>>]
        /\ disk = disk_at_call
        /\ result \in {"False", "raised"}

C4_Witness == Over /\ Has("clone", 128) /\ remote[Destination] = "empty"

\* C5: when the job ends, the working directory is the one it was called in,
\* whatever the repoint and push steps did (exit code 0, another exit code,
\* or an exception from the invocation).
C5_WorkingDirectoryRestored == Over => cwd = cwd_at_call

\* C6: whenever the push step runs, the mirror it runs in has had its origin
\* repointed, successfully and as the step just before, to the destination
\* account's URL for the same repository name, which is not the URL cloned
\* from.
C6_PushOnlyToDestination ==
    /\ pc = "t_push" =>
          /\ cwd = repo_name
          /\ path_exists(disk, repo_name)
          /\ disk[cwd].origin = new_remote_url(new_token, new_owner, repo_name)
          /\ disk[cwd].origin # clone_url(repo_name)
          /\ log[Len(log)] = <<"set_url", 0>>
    /\ \A i \in DOMAIN log :
          log[i][1] = "push" => (i > 1 /\ log[i - 1] = <<"set_url", 0>>)

C6_Witness ==
    /\ Over /\ Has("push", 0)
    /\ new_owner # Username
    /\ remote[<<new_owner, repo_name>>] = "data"

MutatingSteps == {"create", "clone", "set_url", "push", "rmtree", "delete"}

\* C7: nothing on the platform, on disk or in the working directory changes,
\* and no mutating step is taken, before the operator has confirmed the
\* transfer; when the confirmation is declined the job takes no step at all.
C7_NoMutationBeforeConfirmation ==
    /\ pc = "t_confirm" =>
          /\ log = <<>>
          /\ remote = remote_at_call /\ disk = disk_at_call
          /\ cwd = cwd_at_call
    /\ \A i \in DOMAIN log :
          log[i][1] \in MutatingSteps => (i > 1 /\ log[1] = <<"confirm", 1>>)
    /\ (log # <<>> /\ log[1] = <<"confirm", 0>>) =>
          /\ Len(log) = 1
          /\ remote = remote_at_call /\ disk = disk_at_call
          /\ cwd = cwd_at_call

C7_Witness == Over /\ log = << <<"confirm", 0>> >> /\ ret = 155

\* The return statements taken when a step has failed.
FailureLines == {174, 190, 195, 216, 230}
ErrorMessages == {"Error creating repository.", "Error cloning repository.",
                  "Local directory not found.", "Error setting new remote.",
                  "Error pushing repository."}

\* C8 (as claimed): the result a declined transfer gives back differs from
\* the result of every transfer in which a step failed.
C8_CancelledDistinctFromFailed ==
    \A a \in outcomes, b \in outcomes :
        (a[1] = 155 /\ b[1] \in FailureLines) => a[2] # b[2]

\* C8 (amended): a declined transfer gives back False, the same value as a
\* transfer in which a step failed; the two differ only in what is printed:
\* "Transfer cancelled." alone for the former, an error message last for the
\* latter.
C8_CancelledReturnsFalseLikeFailed ==
    /\ \A o \in outcomes : o[1] \in {155} \cup FailureLines => o[2] = "False"
    /\ (Over /\ ret = 155) => console = <<"Transfer cancelled.">>
    /\ (Over /\ ret \in FailureLines) =>
          /\ \A i \in DOMAIN console : console[i] # "Transfer cancelled."
          /\ console[Len(console)] \in ErrorMessages

C8_Witness ==
    \E a \in outcomes, b \in outcomes : a[1] = 155 /\ b[1] \in FailureLines

\* C9: once the push has succeeded and the local cleanup has run, the job
\* gives back success whatever the source-deletion step does.
C9_SuccessWhateverDeletionDoes ==
    (Over /\ Has("push", 0) /\ Took("rmtree")) => result = "True"

\* C10: a delete request for the source repository is issued only when
\* delete_old was requested, the push has succeeded and the local cleanup has
\* run, in that order; without delete_old, or when the job fails at or
\* before the push, the source repository is never deleted.
C10_SourceDeletedOnlyAfterCleanup ==
    /\ \A i \in DOMAIN log :
          (log[i][1] = "delete" \/ (i = Len(log) /\ pc = "t_del_request")) =>
             /\ delete_old
             /\ \E j \in 1..i :
                   /\ j + 1 <= i
                   /\ log[j] = <<"push", 0>>
                   /\ log[j + 1][1] = "rmtree"
    /\ (jobs > 0 /\ (~delete_old \/ ~Has("push", 0))) =>
          /\ ~Took("delete")
          /\ remote[Source] # "none"

C10_Witness == Over /\ Has("delete", HTTP_NO_CONTENT) /\ remote[Source] = "none"

\* ------------------------------- properties of listing and duplicates jobs
Said(msg) == \E i \in DOMAIN console : console[i] = msg
\* The names a delete request of the current job was sent for.
RequestedDeletes ==
    {n \in Names : \E i \in DOMAIN log :
                      log[i][1] = "delete" /\ log[i][2][1] = n}
\* The names delete_repository was called for in the current job.
AttemptedDeletes ==
    {n \in Names : \E i \in DOMAIN log :
                      log[i][1] = "del_confirm" /\ log[i][2][1] = n}
\* The names both the acting and the other account own on the platform.
OwnedByBoth(r) ==
    {n \in Names : r[<<Username, n>>] # "none" /\ r[<<other_token, n>>] # "none"}

\* C11: delete_duplicate_repos never sends a delete request for a name of
\* the exclude set; every name it sends one for is a duplicate that is not
\* excluded, and the excluded repositories stay as they were.
C11_ExcludedNeverDeleted ==
    /\ RequestedDeletes \cap exclude = {}
    /\ AttemptedDeletes \cap exclude = {}
    /\ RequestedDeletes \subseteq (DOMAIN duplicates) \ exclude
    /\ \A n \in RequestedDeletes : n \in OwnedByBoth(remote_at_call)
    /\ pc \in {"d_del_confirm", "d_del_request"} => Head(todo) \notin exclude
    /\ pc \in {"d_list_mine", "d_list_other", "d_confirm", "d_del_confirm",
               "d_del_request", "d_end"} =>
          \A n \in exclude : remote[<<Username, n>>] = remote_at_call[<<Username, n>>]

C11_Witness ==
    /\ pc = "d_end"
    /\ (DOMAIN duplicates) \cap exclude # {}
    /\ \E n \in Names : Has("delete", <<n, HTTP_NO_CONTENT>>)

\* C12: the job says "no duplicates found" exactly when the duplicate set is
\* empty and "all excluded" exactly when it is not empty and every name of it
\* is excluded; in both cases it asks no confirmation and deletes nothing.
C12_NoneFoundAndAllExcludedDistinct ==
    pc = "d_end" =>
        /\ Said("No duplicate repositories found.") <=> DOMAIN duplicates = {}
        /\ Said("All duplicates were excluded from deletion.") <=>
              (DOMAIN duplicates # {} /\ DOMAIN duplicates \subseteq exclude)
        /\ (DOMAIN duplicates = {} \/ DOMAIN duplicates \subseteq exclude) =>
              /\ ~Took("batch_confirm")
              /\ AttemptedDeletes = {} /\ RequestedDeletes = {}
              /\ remote = remote_at_call

C12_Witness ==
    /\ pc = "d_end"
    /\ Said("All duplicates were excluded from deletion.")
    /\ ~Said("No duplicate repositories found.")

\* C13: deletions start only after the one batch confirmation was affirmed;
\* once it is, delete_repository is called for every remaining repository,
\* whatever the deletions before it did.
C13_EveryRemainingRepositoryAttempted ==
    /\ AttemptedDeletes # {} => Has("batch_confirm", 1)
    /\ (pc \in {"d_end", "crashed"} /\ Has("batch_confirm", 1)) =>
          AttemptedDeletes = DOMAIN repos_to_delete

\* C14: when both listings are answered, list_duplicate_repos gives exactly
\* the names both accounts own, each with the acting account's visibility.
C14_DuplicatesAreTheIntersection ==
    (pc \in {"d_confirm", "d_end"} /\ Has("list_mine", HTTP_OK)
        /\ Has("list_other", HTTP_OK)) =>
        duplicates = [n \in OwnedByBoth(remote_at_call) |->
                         visibility(<<Username, n>> \in private)]

\* C15: an answered get_repositories gives every repository the account
\* sees that passes the filter.
C15_ListingIsComplete ==
    (pc = "g_end" /\ Has("list", HTTP_OK)) =>
        /\ \A x \in Visible(remote, collab, Username) :
              kept(repo_filter,
                   IF x[1] = Username THEN "owner" ELSE "collaborator") =>
                 \E i \in DOMAIN listing.named :
                    /\ listing.named[i].name = x[2]
                    /\ listing.named[i].owner = Login(x[1])
        /\ kept(repo_filter, "collaborator") =>
              listing.others = filler[Username]

\* C16: every descriptor get_repositories gives is typed "owner" when the
\* repository belongs to the acting account, whatever the case of the login,
\* and "collaborator" otherwise; the filter "owner" gives owner descriptors
\* only, "collaborator" collaborator descriptors only, "all" the whole answer.
C16_TypeIsOwnerIffLoginMatches ==
    (pc \in {"g_end", "d_list_other"}) =>
        /\ \A i \in DOMAIN listing.named :
              /\ listing.named[i].repo_type \in {"owner", "collaborator"}
              /\ listing.named[i].repo_type = "owner" <=>
                    listing.named[i].owner = Login(Username)
              /\ remote[<<IF listing.named[i].repo_type = "owner"
                          THEN Username
                          ELSE CHOOSE a \in Accounts : a # Username,
                         listing.named[i].name>>] # "none"
        /\ (repo_filter = "owner" \/ pc = "d_list_other") =>
              /\ \A i \in DOMAIN listing.named :
                    listing.named[i].repo_type = "owner"
              /\ listing.others = 0
        /\ repo_filter = "collaborator" =>
              \A i \in DOMAIN listing.named :
                 listing.named[i].repo_type = "collaborator"
        /\ (repo_filter = "all" /\ Has("list", HTTP_OK)) =>
              Len(listing.named) =
                 Len(platform_list(remote, private, collab, filler, Username).named)

C16_Witness ==
    /\ pc = "g_end" /\ repo_filter = "all"
    /\ \E i \in DOMAIN listing.named : listing.named[i].repo_type = "owner"
    /\ \E i \in DOMAIN listing.named : listing.named[i].repo_type = "collaborator"

\* C17: delete_repository gives True exactly when the operator confirmed and
\* the delete request was answered "no content"; when the operator declines,
\* no delete request is sent.
C17_DeleteSuccessIffConfirmedAnd204 ==
    \A i \in DOMAIN log :
        /\ log[i][1] = "del_return" =>
              LET n == log[i][2][1]
              IN /\ i > 1
                 /\ log[i][2][2] = "True" <=>
                       /\ i > 2
                       /\ log[i - 1] = <<"delete", <<n, HTTP_NO_CONTENT>>>>
                       /\ log[i - 2] = <<"del_confirm", <<n, 1>>>>
                 /\ log[i][2][2] = "True" => remote_at_call[<<Username, n>>] # "none"
        /\ log[i][1] = "delete" =>
              (i > 1 /\ log[i - 1] = <<"del_confirm", <<log[i][2][1], 1>>>>)
        /\ (log[i][1] = "del_confirm" /\ log[i][2][2] = 0) =>
              /\ i + 1 \in DOMAIN log
              /\ log[i + 1] = <<"del_return", <<log[i][2][1], "False">>>>

C17_Witness ==
    /\ pc = "d_end"
    /\ \E n \in Names : Has("del_return", <<n, "True">>)
    /\ \E n \in Names :
          Has("delete", <<n, 403>>) /\ Has("del_return", <<n, "False">>)

\* C20: when the listing of either account is answered with an error, the
\* duplicate set is empty, the job says "no duplicates found", asks nothing
\* and deletes nothing.
C20_ListingErrorMeansNoneFound ==
    (pc = "d_end" /\ \E st \in ListStatuses \ {HTTP_OK} :
                        Has("list_mine", st) \/ Has("list_other", st)) =>
        /\ DOMAIN duplicates = {}
        /\ console[Len(console)] = "No duplicate repositories found."
        /\ Said("Error fetching repositories.")
        /\ ~Took("batch_confirm")
        /\ AttemptedDeletes = {} /\ RequestedDeletes = {}
        /\ remote = remote_at_call

C20_Witness ==
    /\ pc = "d_end"
    /\ Has("list_mine", HTTP_OK) /\ Has("list_other", 401)
    /\ listing.named # <<>>
    /\ OwnedByBoth(remote) # {}

\* ------------------------------------- further properties of the transfer
\* C18: when the repoint step fails, the job ends in failure without a push
\* and without cleanup: the mirror directory is still on disk.
C18_RepointFailureLeavesMirror ==
    \A i \in DOMAIN log :
        (log[i][1] = "set_url" /\ log[i][2] # 0) =>
           /\ i = Len(log)
           /\ ~Took("push") /\ ~Took("rmtree") /\ ~Took("delete")
           /\ path_exists(disk, repo_name)
           /\ IF log[i][2] = Raised
              THEN result = "raised"
              ELSE result = "False" /\ ret = 216 /\ cwd = cwd_at_call

C18_Witness ==
    Over /\ Has("set_url", 128) /\ ret = 216 /\ path_exists(disk, repo_name)

\* C19: the clone step fails when git exits non-zero and also when it exits
\* zero but <repoName>.git is absent afterwards; either way the job returns
\* False at once, the working directory is unchanged, and no repoint, push,
\* cleanup or source deletion follows.
C19_CloneFailureStopsJob ==
    \A i \in DOMAIN log :
        /\ (log[i][1] = "clone" /\ log[i][2] \notin {0, Raised}) =>
              /\ i = Len(log)
              /\ result = "False" /\ ret = 190
              /\ cwd = cwd_at_call /\ disk = disk_at_call
        /\ log[i] = <<"exists", 0>> =>
              /\ i = Len(log)
              /\ i > 1 /\ log[i - 1] = <<"clone", 0>>
              /\ result = "False" /\ ret = 195
              /\ cwd = cwd_at_call /\ disk = disk_at_call
              /\ ~path_exists(disk, repo_name)

C19_Witness ==
    /\ Over /\ ret = 195 /\ Has("exists", 0)
    /\ <<190, "False">> \in outcomes
\* C21: a delete request for the source repository is sent only after the
\* transfer's own re-confirmation and then delete_repository's confirmation
\* were both answered yes, in that order; when either one is declined the
\* job sends no delete request, the source repository remains, and the
\* transfer returns True from line 247.
C21_DeleteNeedsBothConfirmations ==
    /\ \A i \in DOMAIN log :
          (log[i][1] = "delete" \/ (i = Len(log) /\ pc = "t_del_request")) =>
             \E j \in 1..i :
                /\ j + 1 <= i
                /\ log[j] = <<"ask_delete", 1>>
                /\ log[j + 1] = <<"del_confirm", 1>>
    /\ \A i \in DOMAIN log :
          log[i][1] = "del_confirm" => (i > 1 /\ log[i - 1] = <<"ask_delete", 1>>)
    /\ (Has("ask_delete", 0) \/ Has("del_confirm", 0)) =>
          /\ ~Took("delete")
          /\ remote[Source] # "none"
          /\ pc # "crashed" /\ result = "True" /\ ret = 247

C21_Witness ==
    /\ Over /\ Has("ask_delete", 1) /\ Has("del_confirm", 0)
    /\ remote[Source] # "none" /\ result = "True"
    /\ <<247, "True">> \in outcomes

\* The token the remote configuration of <name>.git holds ("": none on disk).
token_on_disk(d, name) == IF d[name].exists THEN d[name].origin.token ELSE ""
\* The last step the job took was `step` and git exited non-zero from it.
FailedAt(step) ==
    /\ Len(log) > 0
    /\ log[Len(log)][1] = step
    /\ log[Len(log)][2] \in ExitCodes \ {0}

====
